---- MODULE Spec2Model ----
(***************************************************************************)
(* Model of `forge coverage` (cli/src/cmd/forge/coverage.rs): the main     *)
(* context configures, builds, prepares the coverage map, spawns the       *)
(* test-execution thread, drains the result channel merging hit maps,      *)
(* joins the thread and builds a report.                                   *)
(***************************************************************************)
EXTENDS Integers, Sequences, FiniteSets, TLC

VARIABLES
    pc,            \* position of the main context in run/prepare/collect
    result,        \* what run returned: "none" (still running), "ok", "err"
    report,        \* self.report, the report kind fixed before the run
    project,       \* the project on disk: what compiling and testing it yields
    output,        \* ProjectCompileOutput handed from build to prepare/collect
    prepare_todo,  \* versioned sources prepare has still to visit
    map,           \* the CoverageMap: (version, path) -> items
    source_maps,   \* ArtifactId -> (creation SourceMap, runtime SourceMap)
    thread,        \* the test-execution thread
    pending,       \* suites the runner has not finished yet
    chan,          \* messages in flight on the mpsc channel
    cur,           \* test results of the message in hand not yet correlated
    reporter,      \* the reporter that was built, "none" before
    lcov           \* the file lcov.info at the project root: "absent" or "created"

vars == <<pc, result, report, project, output, prepare_todo, map, source_maps,
          thread, pending, chan, cur, reporter, lcov>>

\* ------------------------------------------------------------------------
\* Bounds
MaxSuites == 2     \* suites in one filtered run

\* ------------------------------------------------------------------------
\* Data the external collaborators produce

CoverageReportKind == {"Summary", "Lcov", "Debug"}

Item(s, e) == [start |-> s, end |-> e, hits |-> 0]

Ast(items) == [kind |-> "ok", items |-> items]
NoAst == [kind |-> "none", items |-> <<>>]
BadAst == [kind |-> "bad", items |-> <<>>]

VSource(p, v, ast) == [path |-> p, version |-> v, ast |-> ast]

Entry(lo, hi, src, s, e) == [lo |-> lo, hi |-> hi, src |-> src, start |-> s, end |-> e]

SM(entries) == [kind |-> "ok", entries |-> entries]
NoSM == [kind |-> "none", entries |-> <<>>]
BadSM == [kind |-> "bad", entries |-> <<>>]

ArtifactId(n, v) == [name |-> n, version |-> v]

ArtifactOf(id, creation, runtime) == [id |-> id, creation |-> creation, runtime |-> runtime]

A1 == ArtifactId("A1", "v1")
A2 == ArtifactId("A2", "v1")

SM_RT == SM(<<Entry(0, 5, "a.sol", 10, 20)>>)
SM_Two == SM(<<Entry(0, 5, "a.sol", 10, 20), Entry(5, 8, "a.sol", 12, 16)>>)
SM_Gen == SM(<<Entry(0, 5, "a.sol", 30, 40), Entry(5, 8, "b.sol", 10, 20)>>)
SM_Empty == SM(<<>>)

SourceOutputs ==
    { <<VSource("a.sol", "v1", Ast(<<Item(10, 20)>>))>>,
      <<VSource("a.sol", "v1", Ast(<<Item(10, 20), Item(12, 16)>>)),
        VSource("b.sol", "v1", Ast(<<>>))>>,
      <<VSource("a.sol", "v1", Ast(<<>>)),
        VSource("a.sol", "v2", Ast(<<Item(10, 20)>>)),
        VSource("b.sol", "v1", Ast(<<Item(10, 20)>>))>>,
      <<VSource("a.sol", "v1", Ast(<<Item(10, 20)>>)),
        VSource("b.sol", "v1", NoAst)>>,
      <<VSource("a.sol", "v1", Ast(<<Item(10, 20)>>)),
        VSource("b.sol", "v1", BadAst)>> }

ArtifactOutputs ==
    { {ArtifactOf(A1, SM_RT, SM_Empty)},
      {ArtifactOf(A1, SM_Empty, SM_RT), ArtifactOf(A2, SM_Gen, SM_Two)},
      {ArtifactOf(A1, SM_RT, SM_RT), ArtifactOf(A2, SM_Two, NoSM)},
      {ArtifactOf(A1, SM_Two, SM_Gen), ArtifactOf(A2, BadSM, SM_RT)} }

NoArtifact == [some |-> FALSE, id |-> ArtifactId("", "")]
Known(id) == [some |-> TRUE, id |-> id]

Addresses == {"X", "Y", "Z"}

Identifiers ==
    { [a \in Addresses |-> CASE a = "X" -> Known(A1) [] a = "Y" -> Known(A2) [] OTHER -> NoArtifact],
      [a \in Addresses |-> CASE a = "X" -> Known(A1) [] a = "Y" -> Known(A1) [] OTHER -> NoArtifact] }

NoCoverage == [some |-> FALSE, hit_map |-> <<>>]
Coverage(h) == [some |-> TRUE, hit_map |-> h]

TestResult(coverage, traces) == [coverage |-> coverage, traces |-> traces]

H3 == ("X" :> (2 :> 3))
H7 == ("X" :> (2 :> 7))
HXY == ("X" :> ((2 :> 1) @@ (6 :> 2))) @@ ("Y" :> (2 :> 1))

SuiteNames == {"SuiteA", "SuiteB", "SuiteB2", "SuiteC", "SuiteD", "SuiteD2"}

SuiteResults(name) ==
    CASE name = "SuiteA" ->
           <<TestResult(NoCoverage, <<<<"X">>>>), TestResult(NoCoverage, <<>>)>>
      [] name = "SuiteB" -> <<TestResult(Coverage(H3), <<<<"X">>>>)>>
      [] name = "SuiteB2" -> <<TestResult(Coverage(H3), <<<<"X">>, <<"X">>>>)>>
      [] name = "SuiteC" ->
           <<TestResult(Coverage(HXY), <<<<"X", "Y">>, <<"Z", "Y">>>>),
             TestResult(Coverage(HXY), <<>>)>>
      [] name = "SuiteD" -> <<TestResult(Coverage(H7), <<<<"X">>>>)>>
      [] OTHER -> <<TestResult(Coverage(H7), <<<<"X">>, <<"Z", "Y", "X">>>>)>>

Projects ==
    [ sources : SourceOutputs,
      artifacts : ArtifactOutputs,
      identify : Identifiers,
      suites : {S \in SUBSET SuiteNames : Cardinality(S) <= MaxSuites} ]

EmptyOutput == [sources |-> <<>>, artifacts |-> {}]
EmptyMap == [k \in {} |-> <<>>]

\* ------------------------------------------------------------------------
\* CoverageMap (forge::coverage)

SourceKey(version, path) == <<version, path>>

\* CoverageMap::add_source: inserts the entry unless the key is present
add_source(m, path, version, items) ==
    LET key == SourceKey(version, path) IN
    [k \in DOMAIN m \cup {key} |-> IF k \in DOMAIN m THEN m[k] ELSE items]

\* The source map entry whose offset range contains the instruction offset
Covering(entries, offset) ==
    {i \in 1..Len(entries) : entries[i].lo <= offset /\ offset < entries[i].hi}

\* TRUE iff the item's byte range contains the entry's source range
Contains(item, entry) == item.start <= entry.start /\ entry.end <= item.end

\* What one (offset, count) pair adds to one item of the source under key
HitGain(key, item, version, entries, offset, count) ==
    LET cov == Covering(entries, offset) IN
    IF cov = {} THEN 0
    ELSE LET entry == entries[CHOOSE i \in cov : \A j \in cov : i <= j] IN
         IF key = SourceKey(version, entry.src) /\ Contains(item, entry)
         THEN count ELSE 0

RECURSIVE ItemGain(_, _, _, _, _, _)
ItemGain(key, item, version, entries, hits, offsets) ==
    IF offsets = {} THEN 0
    ELSE LET o == CHOOSE x \in offsets : TRUE IN
         HitGain(key, item, version, entries, o, hits[o])
           + ItemGain(key, item, version, entries, hits, offsets \ {o})

\* CoverageMap::add_hit_map: adds every observed count to the items it resolves to
add_hit_map(m, version, entries, hits) ==
    [k \in DOMAIN m |->
        [i \in 1..Len(m[k]) |->
            [m[k][i] EXCEPT !.hits =
                @ + ItemGain(k, m[k][i], version, entries, hits, DOMAIN hits)]]]

\* ------------------------------------------------------------------------
\* prepare

\* artifacts whose creation and runtime source maps both decode
source_maps_of(artifacts) ==
    LET ok == {a \in artifacts : a.creation.kind = "ok" /\ a.runtime.kind = "ok"} IN
    [id \in {a.id : a \in ok} |->
        LET a == CHOOSE x \in ok : x.id = id IN
        <<a.creation.entries, a.runtime.entries>>]

\* one merge per source map of every identity that resolves, in the code's order
\* variant: the first identity that does not resolve ends the trace
RECURSIVE IdentityMerges_stop_at_unresolved(_, _, _, _)
IdentityMerges_stop_at_unresolved(identify, table, hit_map, addrs) ==
    IF addrs = <<>> THEN <<>>
    ELSE LET identity == identify[Head(addrs)]
             rest == IdentityMerges_stop_at_unresolved(identify, table, hit_map, Tail(addrs))
         IN IF identity.some /\ identity.id \in DOMAIN table
                /\ Head(addrs) \in DOMAIN hit_map
            THEN <<[version |-> identity.id.version,
                    entries |-> table[identity.id][1],
                    hits |-> hit_map[Head(addrs)]],
                   [version |-> identity.id.version,
                    entries |-> table[identity.id][2],
                    hits |-> hit_map[Head(addrs)]]>> \o rest
            ELSE <<>>

\* variant: only the creation source map is merged
RECURSIVE IdentityMerges_creation_only(_, _, _, _)
IdentityMerges_creation_only(identify, table, hit_map, addrs) ==
    IF addrs = <<>> THEN <<>>
    ELSE LET identity == identify[Head(addrs)]
             rest == IdentityMerges_creation_only(identify, table, hit_map, Tail(addrs))
         IN IF identity.some /\ identity.id \in DOMAIN table
                /\ Head(addrs) \in DOMAIN hit_map
            THEN <<[version |-> identity.id.version,
                    entries |-> table[identity.id][1],
                    hits |-> hit_map[Head(addrs)]]>> \o rest
            ELSE rest

RECURSIVE IdentityMerges(_, _, _, _)
IdentityMerges(identify, table, hit_map, addrs) ==
    IF addrs = <<>> THEN <<>>
    ELSE LET identity == identify[Head(addrs)]
             rest == IdentityMerges(identify, table, hit_map, Tail(addrs))
         IN IF identity.some /\ identity.id \in DOMAIN table
                /\ Head(addrs) \in DOMAIN hit_map
            THEN <<[version |-> identity.id.version,
                    entries |-> table[identity.id][1],
                    hits |-> hit_map[Head(addrs)]],
                   [version |-> identity.id.version,
                    entries |-> table[identity.id][2],
                    hits |-> hit_map[Head(addrs)]]>> \o rest
            ELSE rest

\* variant: the HitMap is merged for the first trace only
TraceMerges_first_trace(identify, table, hit_map, traces) ==
    IF traces = <<>> THEN <<>>
    ELSE IdentityMerges(identify, table, hit_map, Head(traces))

RECURSIVE TraceMerges(_, _, _, _)
TraceMerges(identify, table, hit_map, traces) ==
    IF traces = <<>> THEN <<>>
    ELSE IdentityMerges(identify, table, hit_map, Head(traces))
           \o TraceMerges(identify, table, hit_map, Tail(traces))

\* the add_hit_map calls one test result triggers
ResultMerges(identify, table, res) ==
    IF res.coverage.some
    THEN TraceMerges(identify, table, res.coverage.hit_map, res.traces)
    ELSE <<>>

\* the merges applied one after the other; each intermediate map and the
\* rest of the sequence are bound to their values before the next call
RECURSIVE ApplyMerges(_, _)
ApplyMerges(m, merges) ==
    IF merges = <<>> THEN m
    ELSE CHOOSE r \in
           {ApplyMerges(next, rest) :
              next \in {add_hit_map(m, Head(merges).version, Head(merges).entries,
                                   Head(merges).hits)},
              rest \in {Tail(merges)}} : TRUE

\* ------------------------------------------------------------------------
\* Actions of the main context

Fail ==
    /\ pc' = "done"
    /\ result' = "err"

\* run: self.configure()?
Configure ==
    /\ pc = "configure"
    /\ \/ pc' = "build" /\ result' = result
       \/ Fail
    /\ UNCHANGED <<report, project, output, prepare_todo, map, source_maps,
                   thread, pending, chan, cur, reporter, lcov>>

\* run: self.build(&config)?
Build ==
    /\ pc = "build"
    /\ \/ /\ pc' = "prepare"
          /\ result' = result
          /\ output' = [sources |-> project.sources, artifacts |-> project.artifacts]
       \/ Fail /\ output' = output
    /\ UNCHANGED <<report, project, prepare_todo, map, source_maps,
                   thread, pending, chan, cur, reporter, lcov>>

\* prepare: the source map table and the empty map
PrepareSourceMaps ==
    /\ pc = "prepare"
    /\ source_maps' = source_maps_of(output.artifacts)
    /\ map' = EmptyMap
    /\ prepare_todo' = output.sources
    /\ pc' = "visit"
    /\ UNCHANGED <<result, report, project, output, thread, pending, chan, cur, reporter, lcov>>

\* variant: a source is registered whether or not it has items
PrepareVisit_no_empty_check ==
    /\ pc = "visit"
    /\ IF prepare_todo = <<>>
       THEN /\ pc' = "collect"
            /\ UNCHANGED <<result, prepare_todo, map>>
       ELSE LET vs == Head(prepare_todo) IN
            CASE vs.ast.kind = "bad" ->
                   Fail /\ UNCHANGED <<prepare_todo, map>>
              [] vs.ast.kind = "ok" ->
                   /\ map' = add_source(map, vs.path, vs.version, vs.ast.items)
                   /\ prepare_todo' = Tail(prepare_todo)
                   /\ UNCHANGED <<pc, result>>
              [] OTHER ->
                   /\ prepare_todo' = Tail(prepare_todo)
                   /\ UNCHANGED <<pc, result, map>>
    /\ UNCHANGED <<report, project, output, source_maps, thread, pending, chan, cur, reporter, lcov>>

\* variant: a source without items ends the loop (break for continue)
PrepareVisit_break ==
    /\ pc = "visit"
    /\ IF prepare_todo = <<>>
       THEN /\ pc' = "collect"
            /\ UNCHANGED <<result, prepare_todo, map>>
       ELSE LET vs == Head(prepare_todo) IN
            CASE vs.ast.kind = "bad" ->
                   Fail /\ UNCHANGED <<prepare_todo, map>>
              [] vs.ast.kind = "ok" /\ vs.ast.items # <<>> ->
                   /\ map' = add_source(map, vs.path, vs.version, vs.ast.items)
                   /\ prepare_todo' = Tail(prepare_todo)
                   /\ UNCHANGED <<pc, result>>
              [] vs.ast.kind = "ok" /\ vs.ast.items = <<>> ->
                   /\ prepare_todo' = <<>>
                   /\ UNCHANGED <<pc, result, map>>
              [] OTHER ->
                   /\ prepare_todo' = Tail(prepare_todo)
                   /\ UNCHANGED <<pc, result, map>>
    /\ UNCHANGED <<report, project, output, source_maps, thread, pending, chan, cur, reporter, lcov>>

\* variant: a source without AST is an error
PrepareVisit_require_ast ==
    /\ pc = "visit"
    /\ IF prepare_todo = <<>>
       THEN /\ pc' = "collect"
            /\ UNCHANGED <<result, prepare_todo, map>>
       ELSE LET vs == Head(prepare_todo) IN
            CASE vs.ast.kind = "bad" ->
                   Fail /\ UNCHANGED <<prepare_todo, map>>
              [] vs.ast.kind = "ok" /\ vs.ast.items # <<>> ->
                   /\ map' = add_source(map, vs.path, vs.version, vs.ast.items)
                   /\ prepare_todo' = Tail(prepare_todo)
                   /\ UNCHANGED <<pc, result>>
              [] vs.ast.kind = "none" ->
                   Fail /\ UNCHANGED <<prepare_todo, map>>
              [] OTHER ->
                   /\ prepare_todo' = Tail(prepare_todo)
                   /\ UNCHANGED <<pc, result, map>>
    /\ UNCHANGED <<report, project, output, source_maps, thread, pending, chan, cur, reporter, lcov>>

\* variant: a failure of the visitor is ignored and the source skipped
PrepareVisit_ignore_visit_error ==
    /\ pc = "visit"
    /\ IF prepare_todo = <<>>
       THEN /\ pc' = "collect"
            /\ UNCHANGED <<result, prepare_todo, map>>
       ELSE LET vs == Head(prepare_todo) IN
            CASE vs.ast.kind = "bad" ->
                   /\ prepare_todo' = Tail(prepare_todo)
                   /\ UNCHANGED <<pc, result, map>>
              [] vs.ast.kind = "ok" /\ vs.ast.items # <<>> ->
                   /\ map' = add_source(map, vs.path, vs.version, vs.ast.items)
                   /\ prepare_todo' = Tail(prepare_todo)
                   /\ UNCHANGED <<pc, result>>
              [] vs.ast.kind = "none" ->
                   /\ prepare_todo' = Tail(prepare_todo)
                   /\ UNCHANGED <<pc, result, map>>
              [] OTHER ->
                   /\ prepare_todo' = Tail(prepare_todo)
                   /\ UNCHANGED <<pc, result, map>>
    /\ UNCHANGED <<report, project, output, source_maps, thread, pending, chan, cur, reporter, lcov>>

\* prepare: one iteration of the loop over the versioned sources, or the return
PrepareVisit ==
    /\ pc = "visit"
    /\ IF prepare_todo = <<>>
       THEN /\ pc' = "collect"
            /\ UNCHANGED <<result, prepare_todo, map>>
       ELSE LET vs == Head(prepare_todo) IN
            CASE vs.ast.kind = "bad" ->
                   Fail /\ UNCHANGED <<prepare_todo, map>>
              [] vs.ast.kind = "ok" /\ vs.ast.items # <<>> ->
                   /\ map' = add_source(map, vs.path, vs.version, vs.ast.items)
                   /\ prepare_todo' = Tail(prepare_todo)
                   /\ UNCHANGED <<pc, result>>
              [] OTHER ->
                   /\ prepare_todo' = Tail(prepare_todo)
                   /\ UNCHANGED <<pc, result, map>>
    /\ UNCHANGED <<report, project, output, source_maps, thread, pending, chan, cur, reporter, lcov>>

\* collect: build the runner, open the channel, spawn the test thread
CollectSpawn ==
    /\ pc = "collect"
    /\ \/ /\ pc' = "drain"
          /\ thread' = "running"
          /\ pending' = project.suites
          /\ chan' = <<>>
          /\ UNCHANGED result
       \/ Fail /\ UNCHANGED <<thread, pending, chan>>
    /\ UNCHANGED <<report, project, output, prepare_todo, map, source_maps, cur, reporter, lcov>>

\* variant: the newest message is taken and the older ones are dropped
Recv_latest ==
    /\ pc = "drain"
    /\ cur = <<>>
    /\ chan # <<>>
    /\ cur' = chan[Len(chan)].test_results
    /\ chan' = <<>>
    /\ UNCHANGED <<pc, result, report, project, output, prepare_todo, map, source_maps,
                   thread, pending, reporter, lcov>>

\* collect: the channel iterator yields the next message
Recv ==
    /\ pc = "drain"
    /\ cur = <<>>
    /\ chan # <<>>
    /\ cur' = Head(chan).test_results
    /\ chan' = Tail(chan)
    /\ UNCHANGED <<pc, result, report, project, output, prepare_todo, map, source_maps,
                   thread, pending, reporter, lcov>>

\* variant: the counters are overwritten by each result instead of accumulated
Correlate_overwrite ==
    /\ pc = "drain"
    /\ cur # <<>>
    /\ map' = ApplyMerges([k \in DOMAIN map |->
                             [i \in 1..Len(map[k]) |-> [map[k][i] EXCEPT !.hits = 0]]],
                          ResultMerges(project.identify, source_maps, Head(cur)))
    /\ cur' = Tail(cur)
    /\ UNCHANGED <<pc, result, report, project, output, prepare_todo, source_maps,
                   thread, pending, chan, reporter, lcov>>

\* variant: the HitMap is unwrapped, a result without one is an error
Correlate_unwrap ==
    /\ pc = "drain"
    /\ cur # <<>>
    /\ IF Head(cur).coverage.some
       THEN /\ map' = ApplyMerges(map, ResultMerges(project.identify, source_maps, Head(cur)))
            /\ UNCHANGED <<pc, result>>
       ELSE Fail /\ map' = map
    /\ cur' = Tail(cur)
    /\ UNCHANGED <<report, project, output, prepare_todo, source_maps,
                   thread, pending, chan, reporter, lcov>>

\* collect: the loop body for one test result
Correlate ==
    /\ pc = "drain"
    /\ cur # <<>>
    /\ map' = ApplyMerges(map, ResultMerges(project.identify, source_maps, Head(cur)))
    /\ cur' = Tail(cur)
    /\ UNCHANGED <<pc, result, report, project, output, prepare_todo, source_maps,
                   thread, pending, chan, reporter, lcov>>

\* variant: the loop ends as soon as the channel is empty (try_iter)
Drained_try_iter ==
    /\ pc = "drain"
    /\ cur = <<>>
    /\ chan = <<>>
    /\ pc' = "join"
    /\ UNCHANGED <<result, report, project, output, prepare_todo, map, source_maps,
                   thread, pending, chan, cur, reporter, lcov>>

\* variant: the loop ends only when the thread returned normally
Drained_only_finished ==
    /\ pc = "drain"
    /\ cur = <<>>
    /\ chan = <<>>
    /\ thread = "finished"
    /\ pc' = "join"
    /\ UNCHANGED <<result, report, project, output, prepare_todo, map, source_maps,
                   thread, pending, chan, cur, reporter, lcov>>

\* collect: every sender is dropped and the channel is empty, the loop ends
Drained ==
    /\ pc = "drain"
    /\ cur = <<>>
    /\ chan = <<>>
    /\ thread \in {"finished", "panicked"}
    /\ pc' = "join"
    /\ UNCHANGED <<result, report, project, output, prepare_todo, map, source_maps,
                   thread, pending, chan, cur, reporter, lcov>>

\* collect: let _ = handle.join()
Join ==
    /\ pc = "join"
    /\ thread \in {"finished", "panicked"}
    /\ pc' = "report"
    /\ UNCHANGED <<result, report, project, output, prepare_todo, map, source_maps,
                   thread, pending, chan, cur, reporter, lcov>>

\* variant: the summary reporter is built whatever self.report says
Report_always_summary ==
    /\ pc = "report"
    /\ \/ /\ reporter' = "Summary"
          /\ lcov' = IF report = "Lcov" THEN "created" ELSE lcov
          /\ pc' = "done"
          /\ result' = "ok"
       \/ /\ report = "Lcov"
          /\ Fail
          /\ UNCHANGED <<reporter, lcov>>
       \/ /\ report = "Lcov"
          /\ Fail
          /\ reporter' = report
          /\ lcov' = "created"
    /\ UNCHANGED <<report, project, output, prepare_todo, map, source_maps,
                   thread, pending, chan, cur>>

\* variant: the output file is created for every report kind
Report_file_for_all ==
    /\ pc = "report"
    /\ \/ /\ reporter' = report
          /\ lcov' = "created"
          /\ pc' = "done"
          /\ result' = "ok"
       \/ /\ Fail
          /\ UNCHANGED <<reporter, lcov>>
       \/ /\ report = "Lcov"
          /\ Fail
          /\ reporter' = report
          /\ lcov' = "created"
    /\ UNCHANGED <<report, project, output, prepare_todo, map, source_maps,
                   thread, pending, chan, cur>>

\* collect: build and finalize the reporter selected by self.report; creating
\* lcov.info may fail, and so may writing to it in finalize
Report ==
    /\ pc = "report"
    /\ \/ /\ reporter' = report
          /\ lcov' = IF report = "Lcov" THEN "created" ELSE lcov
          /\ pc' = "done"
          /\ result' = "ok"
       \/ /\ report = "Lcov"
          /\ Fail
          /\ UNCHANGED <<reporter, lcov>>
       \/ /\ report = "Lcov"
          /\ Fail
          /\ reporter' = report
          /\ lcov' = "created"
    /\ UNCHANGED <<report, project, output, prepare_todo, map, source_maps,
                   thread, pending, chan, cur>>

\* ------------------------------------------------------------------------
\* Actions of the test-execution thread

\* variant: the test thread merges the suite's hits into the map itself
RECURSIVE SuiteMerges(_, _, _)
SuiteMerges(identify, table, results) ==
    IF results = <<>> THEN <<>>
    ELSE ResultMerges(identify, table, Head(results))
           \o SuiteMerges(identify, table, Tail(results))

Send_merging ==
    /\ thread = "running"
    /\ \E s \in pending :
          /\ chan' = Append(chan, [name |-> s, test_results |-> <<>>])
          /\ map' = ApplyMerges(map, SuiteMerges(project.identify, source_maps,
                                                 SuiteResults(s)))
          /\ pending' = pending \ {s}
    /\ UNCHANGED <<pc, result, report, project, output, prepare_todo, source_maps,
                   thread, cur, reporter, lcov>>

\* runner.test: a suite completes and its result is sent
Send ==
    /\ thread = "running"
    /\ \E s \in pending :
          /\ chan' = Append(chan, [name |-> s, test_results |-> SuiteResults(s)])
          /\ pending' = pending \ {s}
    /\ UNCHANGED <<pc, result, report, project, output, prepare_todo, map, source_maps,
                   thread, cur, reporter, lcov>>

\* runner.test returns Ok: the closure returns and tx is dropped
Finish ==
    /\ thread = "running"
    /\ pending = {}
    /\ thread' = "finished"
    /\ UNCHANGED <<pc, result, report, project, output, prepare_todo, map, source_maps,
                   pending, chan, cur, reporter, lcov>>

\* runner.test returns Err: unwrap panics and tx is dropped
Panic ==
    /\ thread = "running"
    /\ thread' = "panicked"
    /\ UNCHANGED <<pc, result, report, project, output, prepare_todo, map, source_maps,
                   pending, chan, cur, reporter, lcov>>

\* ------------------------------------------------------------------------

Init ==
    /\ pc = "configure"
    /\ result = "none"
    /\ report \in CoverageReportKind
    /\ project \in Projects
    /\ output = EmptyOutput
    /\ prepare_todo = <<>>
    /\ map = EmptyMap
    /\ source_maps = EmptyMap
    /\ thread = "unspawned"
    /\ pending = {}
    /\ chan = <<>>
    /\ cur = <<>>
    /\ reporter = "none"
    /\ lcov = "absent"

Next ==
    \/ Configure
    \/ Build
    \/ PrepareSourceMaps
    \/ PrepareVisit
    \/ CollectSpawn
    \/ Recv
    \/ Correlate
    \/ Drained
    \/ Join
    \/ Report
    \/ Send
    \/ Finish
    \/ Panic

\* a step of the main context
MainStep ==
    \/ Configure
    \/ Build
    \/ PrepareSourceMaps
    \/ PrepareVisit
    \/ CollectSpawn
    \/ Recv
    \/ Correlate
    \/ Drained
    \/ Join
    \/ Report

Spec == Init /\ [][Next]_vars

\* The main context is scheduled whenever it can take a step; whether the test
\* thread goes on depends on the tests it runs, so nothing is assumed of it.
\* Termination does not depend on what is compiled: one compile output and
\* one identifier, every choice of suites and report kind.
LiveProjects ==
    {p \in Projects :
        /\ p.sources = <<VSource("a.sol", "v1", Ast(<<Item(10, 20), Item(12, 16)>>)),
                         VSource("b.sol", "v1", Ast(<<>>))>>
        /\ p.artifacts = {ArtifactOf(A1, SM_Empty, SM_RT), ArtifactOf(A2, SM_Gen, SM_Two)}
        /\ p.identify["Y"] = Known(A2)}

LiveInit == Init /\ project \in LiveProjects

LiveSpec == LiveInit /\ [][Next]_vars /\ WF_vars(MainStep)

\* ------------------------------------------------------------------------
\* Auxiliary definitions of the properties

Versions == {"v1", "v2"}

\* the (key, index) positions of the items of a map
Slots(m) == UNION {{<<k, i>> : i \in 1..Len(m[k])} : k \in DOMAIN m}

\* TRUE iff no counter of the map was raised
NoHits(m) == \A k \in DOMAIN m : \A i \in 1..Len(m[k]) : m[k][i].hits = 0

RECURSIVE SumSlots(_, _)
SumSlots(m, slots) ==
    IF slots = {} THEN 0
    ELSE LET x == CHOOSE y \in slots : TRUE IN
         m[x[1]][x[2]].hits + SumSlots(m, slots \ {x})

\* the total of all hit counters
TotalHits(m) == SumSlots(m, Slots(m))

\* the map without its counters: keys, item order and item ranges
Structure(m) ==
    [k \in DOMAIN m |-> [i \in 1..Len(m[k]) |-> <<m[k][i].start, m[k][i].end>>]]

\* the keys prepare has to register for a compile output
RegistrableKeys(sources) ==
    {SourceKey(sources[i].version, sources[i].path) :
        i \in {j \in 1..Len(sources) :
                 sources[j].ast.kind = "ok" /\ sources[j].ast.items # <<>>}}

\* the keys of the sources whose AST yields no item
EmptyKeys(sources) ==
    {SourceKey(sources[i].version, sources[i].path) :
        i \in {j \in 1..Len(sources) :
                 sources[j].ast.kind = "ok" /\ sources[j].ast.items = <<>>}}

\* the main context has left the drain loop of a spawned run
DrainedRun == pc \in {"join", "report"} /\ thread \in {"finished", "panicked"}

\* the test thread ran every suite and returned, and the channel is drained
CompletedRun == pc \in {"join", "report"} /\ thread = "finished"

\* C1: if the test thread panicked, the run ends in an error and builds no report
C1_PanicSurfaced ==
    (pc = "done" /\ thread = "panicked") => (result = "err" /\ reporter = "none")

\* offset 2 of address X resolves to an item of the registered sources
InstrumentedX ==
    TotalHits(ApplyMerges(map, ResultMerges(project.identify, source_maps,
                                            TestResult(Coverage(H3), <<<<"X">>>>)))) > TotalHits(map)

\* C2: with SuiteA (no HitMap) and SuiteB (HitMap with 3 hits on an
\* instrumented offset) the total of all hit counters is exactly 3 once the
\* channel is drained, whatever the order, the traces and the source maps
C2_ExactlyThree ==
    (CompletedRun /\ project.suites \in {{"SuiteA", "SuiteB"}, {"SuiteA", "SuiteB2"}}
       /\ InstrumentedX)
      => TotalHits(map) = 3

\* C8: round trip: one item [10,20), one entry [0,5) -> [10,20) and the HitMap
\* {X: {2: 7}} of one test raise the item's counter by exactly 7
C8_RoundTripSeven ==
    (CompletedRun
       /\ project.sources = <<VSource("a.sol", "v1", Ast(<<Item(10, 20)>>))>>
       /\ project.artifacts = {ArtifactOf(A1, SM_RT, SM_Empty)}
       /\ project.suites \in {{"SuiteD"}, {"SuiteD2"}})
      => map[SourceKey("v1", "a.sol")][1].hits = 7

\* ------------------------------------------------------------------------
\* C3

\* the per-address hits the merges of C3 range over: disjoint and overlapping
HitSets == {(2 :> 3), (6 :> 4), ((2 :> 1) @@ (6 :> 2))}

EntrySets == {SM_Two.entries, SM_Gen.entries}

\* the offset-wise sum of two hit maps
HitSum(h1, h2) ==
    [o \in DOMAIN h1 \cup DOMAIN h2 |->
        (IF o \in DOMAIN h1 THEN h1[o] ELSE 0) + (IF o \in DOMAIN h2 THEN h2[o] ELSE 0)]

\* the map prepare builds for a sequence of versioned sources
RECURSIVE PreparedMap(_, _)
PreparedMap(m, sources) ==
    IF sources = <<>> THEN m
    ELSE LET vs == Head(sources) IN
         PreparedMap(IF vs.ast.kind = "ok" /\ vs.ast.items # <<>>
                     THEN add_source(m, vs.path, vs.version, vs.ast.items)
                     ELSE m,
                     Tail(sources))

SuiteOrder == <<"SuiteA", "SuiteB", "SuiteB2", "SuiteC", "SuiteD", "SuiteD2">>

RECURSIVE ResultsMerges(_, _, _)
ResultsMerges(identify, table, results) ==
    IF results = <<>> THEN <<>>
    ELSE ResultMerges(identify, table, Head(results))
           \o ResultsMerges(identify, table, Tail(results))

\* the merges of the given suites, taken in the fixed order SuiteOrder
RECURSIVE OrderedMerges(_, _, _, _)
OrderedMerges(identify, table, suites, n) ==
    IF n > Len(SuiteOrder) THEN <<>>
    ELSE (IF SuiteOrder[n] \in suites
          THEN ResultsMerges(identify, table, SuiteResults(SuiteOrder[n]))
          ELSE <<>>)
           \o OrderedMerges(identify, table, suites, n + 1)

\* the map a run that sent the given suites ends with, whatever their order
ExpectedMap(suites) ==
    ApplyMerges(PreparedMap(EmptyMap, output.sources),
                OrderedMerges(project.identify, source_maps, suites, 1))

\* C3: merging H1 then H2, H2 then H1 and the offset-wise sum of H1 and H2
\* leave the same counters, and the map collect ends with does not depend on
\* the order in which the suite messages were received
C3_MergeCommutes ==
    /\ DrainedRun => map = ExpectedMap(project.suites \ pending)
    /\ (pc = "join" /\ thread = "finished") =>
         \A h1 \in HitSets, h2 \in HitSets, v \in Versions, e \in EntrySets :
           LET m12 == add_hit_map(add_hit_map(map, v, e, h1), v, e, h2) IN
           /\ m12 = add_hit_map(add_hit_map(map, v, e, h2), v, e, h1)
           /\ m12 = add_hit_map(map, v, e, HitSum(h1, h2))

\* two suites whose hit maps overlap were sent and drained
C3_Witness ==
    /\ pc = "join"
    /\ thread = "finished"
    /\ project.suites = {"SuiteB", "SuiteC"}
    /\ TotalHits(map) > 3

\* ------------------------------------------------------------------------
\* C4: while suite messages are received and merged no hit counter decreases
\* and no item or source entry is added, removed or reordered
C4_Monotone ==
    [][pc = "drain" =>
          /\ Structure(map') = Structure(map)
          /\ \A x \in Slots(map) : map'[x[1]][x[2]].hits >= map[x[1]][x[2]].hits]_vars

\* a second result is being merged into a map that already has hits
C4_Witness ==
    /\ pc = "drain"
    /\ TotalHits(map) > TotalHits(PreparedMap(EmptyMap, output.sources))
    /\ cur # <<>>
    /\ Head(cur).coverage.some

\* ------------------------------------------------------------------------
\* C5: a source whose AST yields zero items is never in the map, and every
\* source in the map has at least one item
C5_NoEmptySource ==
    /\ \A k \in DOMAIN map : Len(map[k]) >= 1
    /\ DOMAIN map \cap EmptyKeys(output.sources) = {}

\* hits were merged for a compile output that has a source without items
C5_Witness ==
    /\ pc = "report"
    /\ EmptyKeys(output.sources) # {}
    /\ TotalHits(map) > 0

\* ------------------------------------------------------------------------
\* C6: a test result without a HitMap leaves the map unchanged and raises no
\* error, the loop goes on with the next result
C6_NoHitMapNoMerge ==
    [][(pc = "drain" /\ cur # <<>> /\ ~Head(cur).coverage.some /\ cur' # cur) =>
          /\ map' = map
          /\ cur' = Tail(cur)
          /\ pc' = "drain"
          /\ result' = "none"]_vars

\* the result without a HitMap that carries a trace was processed after
\* another suite's hits had been merged
C6_Witness ==
    /\ pc = "drain"
    /\ cur = Tail(SuiteResults("SuiteA"))
    /\ TotalHits(map) > 0

\* ------------------------------------------------------------------------
\* C7

\* the (trace, address) pairs of a result whose identity has an artifact id,
\* a source-map pair and an entry in the HitMap
Resolved(res) ==
    {x \in (1..Len(res.traces)) \X Addresses :
        /\ \E j \in 1..Len(res.traces[x[1]]) : res.traces[x[1]][j] = x[2]
        /\ project.identify[x[2]].some
        /\ project.identify[x[2]].id \in DOMAIN source_maps
        /\ x[2] \in DOMAIN res.coverage.hit_map}

C9_SingleWriter ==
    [][/\ map' # map =>
            /\ \/ pc = "visit" /\ thread = "unspawned"
               \/ pc = "drain" /\ cur # <<>> /\ cur' = Tail(cur)
            /\ UNCHANGED <<thread, pending, chan>>
       /\ (thread' # thread \/ pending' # pending) /\ thread = "running" =>
            /\ map' = map
            /\ cur' = cur
            /\ Len(chan') >= Len(chan)]_vars

\* hits are in the map while the test thread still runs suites
C9_Witness ==
    /\ thread = "running"
    /\ pending # {}
    /\ TotalHits(map) > 0
    /\ cur # <<>>

\* ------------------------------------------------------------------------
\* C10: every source is registered before the test thread is spawned, and
\* from then on the entries and their item lists never change; no source is
\* added once a hit was merged
C10_RegisterBeforeRun ==
    [][/\ pc \in {"configure", "build", "prepare", "visit", "collect"} =>
            thread = "unspawned" /\ NoHits(map)
       /\ thread # "unspawned" =>
            /\ DOMAIN map = RegistrableKeys(output.sources)
            /\ Structure(map') = Structure(map)
       /\ ~NoHits(map) => DOMAIN map' = DOMAIN map]_vars

\* hits were merged for a compile output with several registrable sources
C10_Witness ==
    /\ pc = "drain"
    /\ Cardinality(RegistrableKeys(output.sources)) = 2
    /\ TotalHits(map) > 0

\* ------------------------------------------------------------------------
\* C11: the reporter selected by self.report is the only one built, it is
\* built once, after the channel is drained and the thread joined, and the
\* map is not merged into afterwards
C11_OneReporter ==
    [][/\ report' = report
       /\ reporter' # reporter =>
            /\ reporter = "none"
            /\ reporter' = report
            /\ pc = "report"
            /\ chan = <<>> /\ cur = <<>>
            /\ thread \in {"finished", "panicked"}
       /\ reporter' # "none" => pc' = "done" /\ map' = map
       /\ reporter # "none" => map' = map /\ reporter' = reporter]_vars

\* the debug reporter was built from a map with merged hits
C11_Witness ==
    /\ pc = "done"
    /\ reporter = "Debug"
    /\ TotalHits(map) > 0

\* ------------------------------------------------------------------------
\* C12

\* the address has an artifact id, a source-map pair and an entry in the HitMap
Qualifies(hit_map, a) ==
    /\ project.identify[a].some
    /\ project.identify[a].id \in DOMAIN source_maps
    /\ a \in DOMAIN hit_map

\* the result with every address that does not qualify taken out of its traces
KeepResolved(res) ==
    [res EXCEPT !.traces =
        [t \in 1..Len(res.traces) |->
            SelectSeq(res.traces[t], LAMBDA a : Qualifies(res.coverage.hit_map, a))]]

\* C12: an address without artifact id, an artifact id without source-map
\* pair and an address without entry in the HitMap add no merge and raise no
\* error; the other identities of the trace are merged as if they were alone
C12_UnresolvedSkipped ==
    [][(pc = "drain" /\ cur # <<>> /\ cur' # cur /\ Head(cur).coverage.some) =>
          /\ pc' = "drain"
          /\ result' = "none"
          /\ cur' = Tail(cur)
          /\ map' = ApplyMerges(map, ResultMerges(project.identify, source_maps,
                                                  KeepResolved(Head(cur))))
          /\ Resolved(Head(cur)) = {} => map' = map]_vars

\* the trace [Z, Y, X] was merged: Z has no artifact id, Y no entry in the
\* HitMap, and the hits of X that follows them were counted
C12_Witness ==
    /\ pc = "join"
    /\ thread = "finished"
    /\ project.suites = {"SuiteD2"}
    /\ project.identify["Y"] = Known(A1)
    /\ project.artifacts = {ArtifactOf(A1, SM_RT, SM_Empty)}
    /\ TotalHits(map) = 14

\* ------------------------------------------------------------------------
\* C13

\* the artifacts of which one of the two source maps is missing or undecodable
GapArtifacts(artifacts) ==
    {a \in artifacts : a.creation.kind # "ok" \/ a.runtime.kind # "ok"}

\* TRUE iff some source of the sequence has no AST
HasNoAst(sources) == \E i \in 1..Len(sources) : sources[i].ast.kind = "none"

\* C13: prepare does not fail for a missing AST or source map: the source is
\* skipped, the artifact is left out of the table, all others are registered
C13_GapsSkipped ==
    [][/\ pc = "prepare" =>
            /\ result' = "none" /\ pc' = "visit"
            /\ DOMAIN source_maps' =
                 {a.id : a \in output.artifacts \ GapArtifacts(output.artifacts)}
            /\ \A a \in output.artifacts \ GapArtifacts(output.artifacts) :
                 source_maps'[a.id] = <<a.creation.entries, a.runtime.entries>>
       /\ (pc = "visit" /\ prepare_todo # <<>> /\ Head(prepare_todo).ast.kind = "none") =>
            /\ result' = "none" /\ pc' = "visit"
            /\ map' = map
            /\ prepare_todo' = Tail(prepare_todo)
       /\ (pc = "visit" /\ result' = "err") => Head(prepare_todo).ast.kind = "bad"
       /\ (pc = "visit" /\ pc' = "collect") =>
            DOMAIN map = RegistrableKeys(output.sources)]_vars

\* prepare returned for an output with a source without AST and an artifact
\* without one of its source maps, the others being registered
C13_Witness ==
    /\ pc = "collect"
    /\ HasNoAst(output.sources)
    /\ GapArtifacts(output.artifacts) # {}
    /\ DOMAIN map # {}
    /\ DOMAIN source_maps # {}

\* ------------------------------------------------------------------------
\* C14: the report step fails only for Lcov when lcov.info cannot be
\* created, and then no reporter is built; Summary and Debug create no file
\* and cannot fail
C14_LcovFault ==
    [][/\ lcov' # lcov => pc = "report"
       /\ pc = "report" =>
            /\ (report = "Lcov" /\ lcov' = "absent") =>
                 /\ result' = "err" /\ pc' = "done"
                 /\ reporter' = "none"
            /\ result' = "err" => report = "Lcov"
            /\ report \in {"Summary", "Debug"} =>
                 /\ result' = "ok" /\ reporter' = report /\ lcov' = "absent"
            /\ lcov' = "created" => report = "Lcov" /\ reporter' = "Lcov"]_vars

\* after a drained and joined run the creation of lcov.info failed
C14_Witness ==
    /\ pc = "done"
    /\ result = "err"
    /\ report = "Lcov"
    /\ thread = "finished"
    /\ reporter = "none"
    /\ lcov = "absent"
    /\ TotalHits(map) > 0

\* ------------------------------------------------------------------------
\* C15

\* TRUE iff the visitor fails on some source of the sequence
HasBadAst(sources) == \E i \in 1..Len(sources) : sources[i].ast.kind = "bad"

\* C15: a failure of configure, build or prepare (a visitor failure
\* included) ends the run at once with the error: the test thread is never
\* spawned, no hit is merged and no report is built
C15_FailFast ==
    [][/\ (pc \in {"configure", "build", "prepare", "visit"} /\ result' = "err") =>
            /\ pc' = "done"
            /\ thread' = "unspawned" /\ chan' = <<>>
            /\ NoHits(map')
            /\ reporter' = "none" /\ lcov' = "absent"
       /\ (pc = "visit" /\ prepare_todo # <<>> /\ Head(prepare_todo).ast.kind = "bad") =>
            result' = "err"
       /\ HasBadAst(output.sources) =>
            thread' = "unspawned" /\ reporter' = "none" /\ NoHits(map')
       /\ pc = "done" => FALSE]_vars

\* the visitor failed on the second source after the first was registered
C15_Witness ==
    /\ pc = "done"
    /\ result = "err"
    /\ prepare_todo # <<>>
    /\ DOMAIN map # {}
    /\ thread = "unspawned"
    /\ reporter = "none"

\* ------------------------------------------------------------------------
\* C16: once the test thread has terminated, normally or by panic, the main
\* context leaves the drain loop, joins and reaches the report step; as long
\* as the thread has not terminated the main context stays in the drain loop
\* and nothing is reported
C16_Termination ==
    /\ (thread \in {"finished", "panicked"}) ~> (pc \in {"report", "done"})
    /\ [](thread = "running" =>
            pc = "drain" /\ result = "none" /\ reporter = "none")

\* the report step was reached after the thread ran two suites and returned
C16_Witness ==
    /\ pc = "report"
    /\ thread = "finished"
    /\ Cardinality(project.suites) = 2

\* ------------------------------------------------------------------------
\* C17

ChanNames == {chan[i].name : i \in 1..Len(chan)}

\* the suites whose message was sent, and those whose message was received
SentSuites == project.suites \ pending
ReceivedSuites == SentSuites \ ChanNames

\* the message of a suite
Message(s) == [name |-> s, test_results |-> SuiteResults(s)]

\* a step that appends the message of a pending suite to the channel
SendStep ==
    \E s \in pending :
       /\ chan' = Append(chan, Message(s))
       /\ pending' = pending \ {s}
       /\ cur' = cur /\ map' = map

\* a step that takes the oldest message of the channel in hand
RecvStep ==
    /\ chan # <<>> /\ cur = <<>>
    /\ chan' = Tail(chan)
    /\ cur' = Head(chan).test_results
    /\ pending' = pending /\ map' = map

\* a step that correlates the first result in hand
CorrelateStep ==
    /\ cur # <<>>
    /\ cur' = Tail(cur)
    /\ chan' = chan
    /\ map' = ApplyMerges(map, ResultMerges(project.identify, source_maps, Head(cur)))

\* every message in the channel is that of a sent suite, none is there twice
HandOff ==
    thread # "unspawned" =>
      /\ Cardinality(ChanNames) = Len(chan)
      /\ ChanNames \subseteq SentSuites
      /\ \A i \in 1..Len(chan) : chan[i] = Message(chan[i].name)

\* C17: every message the test thread sends is received once, in send
\* order, and correlated before the reporter is built, also when the thread
\* panics afterwards
C17_NoLossNoDuplicate ==
    [][/\ HandOff'
       /\ (thread # "unspawned" /\ pending' # pending) => SendStep
       /\ chan' # chan => SendStep \/ RecvStep
       /\ cur' # cur => RecvStep \/ CorrelateStep
       /\ (thread # "unspawned" /\ map' # map) => CorrelateStep
       /\ thread \in {"finished", "panicked"} =>
            thread' = thread /\ pending' = pending
       /\ (pc = "drain" /\ pc' # "drain") =>
            /\ chan = <<>> /\ cur = <<>>
            /\ thread \in {"finished", "panicked"}
       /\ reporter' # reporter =>
            /\ chan = <<>> /\ cur = <<>>
            /\ ReceivedSuites = SentSuites
            /\ thread \in {"finished", "panicked"}]_vars

\* the thread panicked after sending one of its suites, whose hits are in
\* the map at the report step
C17_Witness ==
    /\ pc = "report"
    /\ thread = "panicked"
    /\ pending # {}
    /\ SentSuites # {}
    /\ TotalHits(map) > 0

\* ------------------------------------------------------------------------
\* C18

\* what the merges of the (trace, address) pairs add to one item
RECURSIVE PairGain(_, _, _, _)
PairGain(key, item, res, pairs) ==
    IF pairs = {} THEN 0
    ELSE LET x == CHOOSE y \in pairs : TRUE
             id == project.identify[x[2]].id
             hits == res.coverage.hit_map[x[2]]
         IN ItemGain(key, item, id.version, source_maps[id][1], hits, DOMAIN hits)
              + ItemGain(key, item, id.version, source_maps[id][2], hits, DOMAIN hits)
              + PairGain(key, item, res, pairs \ {x})

\* C18: a result with a HitMap triggers two merges for every (trace,
\* identity) pair that resolves, so an address identified in k traces is
\* merged k times against each source map, and none without traces
C18_MergeMultiplicity ==
    [][(pc = "drain" /\ cur # <<>> /\ cur' # cur /\ Head(cur).coverage.some) =>
          /\ Len(ResultMerges(project.identify, source_maps, Head(cur)))
               = 2 * Cardinality(Resolved(Head(cur)))
          /\ \A x \in Slots(map) :
                map'[x[1]][x[2]].hits - map[x[1]][x[2]].hits
                  = PairGain(x[1], map[x[1]][x[2]], Head(cur), Resolved(Head(cur)))
          /\ Head(cur).traces = <<>> => map' = map]_vars

\* the 3 hits of SuiteB2, whose address is identified in two traces, were
\* merged twice against the one layout that maps the offset
C18_Witness ==
    /\ pc = "join"
    /\ thread = "finished"
    /\ project.suites = {"SuiteB2"}
    /\ project.artifacts = {ArtifactOf(A1, SM_RT, SM_Empty)}
    /\ TotalHits(map) = 6

====
